---- MODULE Spec2Model ----
(***************************************************************************)
(* Lifecycle and frame scheduling of the scene player                      *)
(* (ShadowEditor.Web/src/player/Player.js).                                *)
(*                                                                         *)
(* The player is single threaded: every handler (start, stop, a promise    *)
(* continuation, a frame callback) runs to completion, so each handler is  *)
(* one action.  Handlers of several sessions interleave at the promise     *)
(* and requestAnimationFrame boundaries.                                   *)
(*                                                                         *)
(* Objects are identified by the session that made them: the scene, the    *)
(* camera and the renderer installed by the loader continuation of         *)
(* session s are all written s, and 0 is null.                             *)
(***************************************************************************)
EXTENDS Integers, Sequences, FiniteSets

\* ---------------------------------------------------------------- bounds
\* accepted start() calls explored (each one opens a session)
MaxSessions == 2
\* largest time step, in ticks, a running clock reports between two frames
MaxDelta == 1

SessionIds == 1..MaxSessions

VARIABLES
    isPlaying,     \* this.isPlaying
    display,       \* container.dom.style.display: "none" or ""
    scene,         \* this.scene    (0 = null)
    camera,        \* this.camera   (0 = null)
    renderer,      \* this.renderer (0 = null)
    surfaces,      \* renderer.domElement nodes that are children of the container
    clientSize,    \* container.dom.clientWidth and clientHeight
    clockRunning,  \* this.clock.running
    stats,         \* this.stats is defined (options.showStats)
    session,       \* number of accepted start() calls; the latest is the current session
    loader,        \* per session: state of the promise of loader.create(jsons)
    join,          \* per session: state of the Promise.all over the create() promises
    frames,        \* pending requestAnimationFrame(animate) callbacks
    op,            \* the step that ran last
    calls,         \* the calls that handler made, in order
    raised,        \* the exception that handler ended with, "none" if it returned
    lastChange,    \* history: the last state-changing call ("construct", "start", "stop")
    inits,         \* history, per session: 'init' broadcasts made by its continuation
    clockStarts    \* history, per session: clock.start() calls made by its join continuation

vars == <<isPlaying, display, scene, camera, renderer, surfaces, clientSize, clockRunning,
          stats, session, loader, join, frames, op, calls, raised,
          lastChange, inits, clockStarts>>

\* the fields of the player and of the objects it owns
playerVars == <<isPlaying, display, scene, camera, renderer, surfaces,
                clockRunning, stats>>
\* what the host and the promise machinery hold for the player
pendingVars == <<session, loader, join, frames>>

\* ---------------------------------------------------------------- helpers
Call(n) == [name |-> n, arg |-> 0]
CallWith(n, a) == [name |-> n, arg |-> a]

\* a call that is given the container's width and height
Sized(n, size) == [name |-> n, arg |-> 0, size |-> size]

\* a call that is given the loader result
WithObj(n, obj) == [name |-> n, arg |-> 0, obj |-> obj]

Indices(s, n) == {i \in DOMAIN s : s[i].name = n}
Count(s, n) == Cardinality(Indices(s, n))

\* ---------------------------------------------------------------- inputs
\* Arguments of start(): a non-string, a string that is not JSON, a scene.
\* JSON.parse converts a number argument to text first, so 42 parses.
SceneInputs ==
    { [type |-> "number", text |-> "42",        json |-> TRUE],
      [type |-> "string", text |-> "{not json", json |-> FALSE],
      [type |-> "string", text |-> "{}",        json |-> TRUE] }

\* What the loader resolves with: which of the optional parts it carries.
LoaderResults ==
    [camera : BOOLEAN, renderer : BOOLEAN, audioListener : BOOLEAN, scene : BOOLEAN]

\* Sizes the host gives the container.
ContainerSizes ==
    { [width |-> 2, height |-> 1], [width |-> 1, height |-> 1] }

\* ---------------------------------------------------------------- constructor
Init ==
    /\ isPlaying = FALSE
    /\ display = "none"
    /\ scene = 0
    /\ camera = 0
    /\ renderer = 0
    /\ surfaces = {}
    /\ clientSize \in ContainerSizes
    /\ clockRunning = FALSE
    /\ stats \in BOOLEAN
    /\ session = 0
    /\ loader = [s \in SessionIds |-> "none"]
    /\ join = [s \in SessionIds |-> "none"]
    /\ frames = 0
    /\ op = "construct"
    /\ calls = <<>>
    /\ raised = "none"
    /\ lastChange = "construct"
    /\ inits = [s \in SessionIds |-> 0]
    /\ clockStarts = [s \in SessionIds |-> 0]

\* ---------------------------------------------------------------- start
\* The early returns of start(), in the order the code tests them.
StartBranch_noTypeCheck(sceneData) ==
    IF ~sceneData.json THEN "parseError"
    ELSE IF isPlaying THEN "playing"
    ELSE "run"

StartBranch_noParseCheck(sceneData) ==
    IF sceneData.type # "string" THEN "notString"
    ELSE IF isPlaying THEN "playing"
    ELSE "run"

StartBranch_noPlayingGuard(sceneData) ==
    IF sceneData.type # "string" THEN "notString"
    ELSE IF ~sceneData.json THEN "parseError"
    ELSE "run"

StartBranch(sceneData) ==
    IF sceneData.type # "string" THEN "notString"
    ELSE IF ~sceneData.json THEN "parseError"
    ELSE IF isPlaying THEN "playing"
    ELSE "run"

\* Player.prototype.start, up to the point where it returns to its caller;
\* the continuation it registers on the loader promise is LoaderThen.
start(sceneData) ==
    /\ op' = "start"
    /\ raised' = "none"
    /\ lastChange' = IF sceneData.type = "string" /\ sceneData.json /\ ~isPlaying
                     THEN "start" ELSE lastChange
    /\ UNCHANGED <<scene, camera, renderer, surfaces, clockRunning, stats,
                   join, frames, inits, clockStarts, clientSize>>
    /\ IF StartBranch(sceneData) \in {"notString", "parseError"}
       THEN /\ calls' = <<Call("UI.msg")>>
            /\ UNCHANGED <<isPlaying, display, session, loader>>
       ELSE IF StartBranch(sceneData) = "playing"
       THEN /\ calls' = <<>>
            /\ UNCHANGED <<isPlaying, display, session, loader>>
       ELSE /\ session < MaxSessions
            /\ isPlaying' = TRUE
            /\ display' = ""
            /\ session' = session + 1
            /\ loader' = [loader EXCEPT ![session + 1] = "pending"]
            /\ calls' = <<Call("loader.create")>>

\* ---------------------------------------------------------------- stop
StopBranch_noGuard == "run"

StopBranch == IF ~isPlaying THEN "stopped" ELSE "run"

\* event.stop() and the seven dispose() calls, as stop() makes them
StopCalls_disposeFirst ==
    << Call("loader.dispose"), Call("event.dispose"), Call("event.stop"),
       Call("control.dispose"), Call("audio.dispose"),
       Call("playerRenderer.dispose"), Call("animation.dispose"),
       Call("physics.dispose") >>

StopCalls ==
    << Call("event.stop"),
       Call("loader.dispose"), Call("event.dispose"), Call("control.dispose"),
       Call("audio.dispose"), Call("playerRenderer.dispose"),
       Call("animation.dispose"), Call("physics.dispose") >>

\* Player.prototype.stop.  Reading this.renderer.domElement of a null
\* renderer, or this.scene.children of a null scene, raises a TypeError and
\* the statements after it do not run.
stop ==
    /\ op' = "stop"
    /\ lastChange' = IF isPlaying THEN "stop" ELSE lastChange
    /\ UNCHANGED <<stats, pendingVars, inits, clockStarts, clientSize>>
    /\ IF StopBranch = "stopped"
       THEN /\ calls' = <<>>
            /\ raised' = "none"
            /\ UNCHANGED <<isPlaying, display, scene, camera, renderer,
                           surfaces, clockRunning>>
       ELSE /\ isPlaying' = FALSE
            /\ IF renderer = 0
               THEN /\ calls' = StopCalls
                    /\ raised' = "TypeError"
                    /\ UNCHANGED <<display, scene, camera, renderer, surfaces,
                                   clockRunning>>
               ELSE IF scene = 0
               THEN /\ calls' = StopCalls \o <<Call("removeChild")>>
                    /\ raised' = "TypeError"
                    /\ surfaces' = surfaces \ {renderer}
                    /\ display' = "none"
                    /\ UNCHANGED <<scene, camera, renderer, clockRunning>>
               ELSE /\ calls' = StopCalls \o
                                << Call("removeChild"), Call("scene.children.clear"),
                                   Call("nullContext"), Call("clock.stop") >>
                    /\ raised' = "none"
                    /\ surfaces' = surfaces \ {renderer}
                    /\ display' = "none"
                    /\ scene' = 0
                    /\ camera' = 0
                    /\ renderer' = 0
                    /\ clockRunning' = FALSE

\* ---------------------------------------------------------------- initPlayer
\* The calls of initPlayer(obj): defaults are synthesized for the parts the
\* loader result does not carry.
\* The default camera is made with aspect clientWidth / clientHeight; the
\* renderer, loaded or made, is sized to clientWidth, clientHeight.
initPlayerCalls_sizeDefaultOnly(obj) ==
    <<WithObj("initPlayer", obj)>>
    \o (IF obj.camera THEN <<>> ELSE <<Sized("new PerspectiveCamera", clientSize)>>)
    \o <<Call("camera.updateProjectionMatrix")>>
    \o (IF obj.renderer THEN <<>>
        ELSE <<Call("new WebGLRenderer"), Sized("renderer.setSize", clientSize)>>)
    \o <<Call("appendChild")>>
    \o (IF obj.audioListener THEN <<>> ELSE <<Call("new AudioListener")>>)
    \o <<Call("camera.add")>>
    \o (IF obj.scene THEN <<>> ELSE <<Call("new Scene")>>)

initPlayerCalls(obj) ==
    <<WithObj("initPlayer", obj)>>
    \o (IF obj.camera THEN <<>> ELSE <<Sized("new PerspectiveCamera", clientSize)>>)
    \o <<Call("camera.updateProjectionMatrix")>>
    \o (IF obj.renderer THEN <<>> ELSE <<Call("new WebGLRenderer")>>)
    \o <<Sized("renderer.setSize", clientSize), Call("appendChild")>>
    \o (IF obj.audioListener THEN <<>> ELSE <<Call("new AudioListener")>>)
    \o <<Call("camera.add")>>
    \o (IF obj.scene THEN <<>> ELSE <<Call("new Scene")>>)

\* 1 when camera, renderer and scene are all set, else 0
Bootstrapped(c, r, sc) == IF c # 0 /\ r # 0 /\ sc # 0 THEN 1 ELSE 0

CreateCalls ==
    << Call("event.create"), Call("control.create"), Call("audio.create"),
       Call("playerRenderer.create"), Call("animation.create"),
       Call("physics.create") >>

\* The calls of the continuation of loader.create(jsons) in session s.  The
\* 'init' entry carries whether the context is bootstrapped when it is
\* broadcast.
LoaderThenCalls_initFirst(s, obj) ==
    <<CallWith("dispatch.init", Bootstrapped(camera, renderer, scene))>>
    \o initPlayerCalls(obj)
    \o CreateCalls
    \o <<Call("Promise.all"), Call("requestAnimationFrame")>>

LoaderThenCalls(s, obj) ==
    initPlayerCalls(obj)
    \o <<CallWith("dispatch.init", Bootstrapped(s, s, s))>>
    \o CreateCalls
    \o <<Call("Promise.all"), Call("requestAnimationFrame")>>

\* The loader promise of session s fulfils with obj and its continuation
\* runs.  The continuation does not look at isPlaying.
LoaderThen(s, obj) ==
    /\ loader[s] = "pending"
    /\ op' = "loaderThen"
    /\ raised' = "none"
    /\ loader' = [loader EXCEPT ![s] = "resolved"]
    /\ camera' = s
    /\ renderer' = s
    /\ scene' = s
    /\ surfaces' = surfaces \cup {s}
    /\ calls' = LoaderThenCalls(s, obj)
    /\ join' = [join EXCEPT ![s] = "waiting"]
    /\ frames' = frames + 1
    /\ inits' = [inits EXCEPT ![s] = @ + Count(LoaderThenCalls(s, obj), "dispatch.init")]
    /\ UNCHANGED <<isPlaying, display, clockRunning, stats, session, lastChange,
                   clockStarts, clientSize>>

\* The loader promise of session s rejects: no rejection handler is
\* registered, nothing of the player runs.
LoaderReject(s) ==
    /\ loader[s] = "pending"
    /\ op' = "loaderReject"
    /\ raised' = "none"
    /\ calls' = <<>>
    /\ loader' = [loader EXCEPT ![s] = "rejected"]
    /\ UNCHANGED <<playerVars, session, join, frames, lastChange, inits,
                   clockStarts, clientSize>>

\* ---------------------------------------------------------------- the join
\* The player registers no handler on the six create() promises one by one,
\* only on their Promise.all: what it can observe of a session's creates is
\* "waiting" (some of the six still pending), "failed" (one rejected) and
\* "done" (all six fulfilled).

\* One of the create() promises of session s rejects: Promise.all rejects,
\* and no rejection handler is registered on it.
CreateReject(s) ==
    /\ join[s] = "waiting"
    /\ op' = "createReject"
    /\ raised' = "none"
    /\ calls' = <<>>
    /\ join' = [join EXCEPT ![s] = "failed"]
    /\ UNCHANGED <<playerVars, session, loader, frames, lastChange, inits,
                   clockStarts, clientSize>>

JoinCalls_startBeforeClock ==
    << Call("event.init"), Call("event.start"), Call("clock.start") >>

JoinCalls == << Call("event.init"), Call("clock.start"), Call("event.start") >>

\* The last pending create() promise of session s fulfils: Promise.all
\* fulfils and its continuation runs.  It does not look at isPlaying.
JoinThen(s) ==
    /\ join[s] = "waiting"
    /\ op' = "joinThen"
    /\ raised' = "none"
    /\ calls' = JoinCalls
    /\ join' = [join EXCEPT ![s] = "done"]
    /\ clockRunning' = TRUE
    /\ UNCHANGED <<isPlaying, display, scene, camera, renderer, surfaces, stats,
                   session, loader, frames, lastChange, inits, clientSize>>
    /\ clockStarts' = [clockStarts EXCEPT ![s] = @ + Count(JoinCalls, "clock.start")]

\* ---------------------------------------------------------------- animate
\* What clock.getDelta() can return: the time since the previous reading
\* when the clock runs, 0 when it does not (the clock has autoStart off).
ClockDeltas == IF clockRunning THEN 1..MaxDelta ELSE {0}

UpdateCalls_physicsFirst(deltaTime) ==
    << CallWith("physics.update", deltaTime),
       CallWith("event.update", deltaTime),
       CallWith("control.update", deltaTime),
       CallWith("playerRenderer.update", deltaTime),
       CallWith("animation.update", deltaTime) >>

UpdateCalls(deltaTime) ==
    << CallWith("event.update", deltaTime),
       CallWith("control.update", deltaTime),
       CallWith("playerRenderer.update", deltaTime),
       CallWith("animation.update", deltaTime),
       CallWith("physics.update", deltaTime) >>

\* A pending frame callback fires.
animate_alwaysReschedules ==
    /\ frames > 0
    /\ op' = "animate"
    /\ raised' = "none"
    /\ UNCHANGED <<playerVars, session, loader, join, lastChange, inits,
                   clockStarts, clientSize>>
    /\ frames' = frames
    /\ IF ~isPlaying
       THEN calls' = <<Call("requestAnimationFrame")>>
       ELSE \E deltaTime \in ClockDeltas :
                 calls' = (IF stats THEN <<Call("stats.begin")>> ELSE <<>>)
                          \o <<CallWith("clock.getDelta", deltaTime)>>
                          \o UpdateCalls(deltaTime)
                          \o (IF stats THEN <<Call("stats.end")>> ELSE <<>>)
                          \o <<Call("requestAnimationFrame")>>

animate ==
    /\ frames > 0
    /\ op' = "animate"
    /\ raised' = "none"
    /\ UNCHANGED <<playerVars, session, loader, join, lastChange, inits,
                   clockStarts, clientSize>>
    /\ IF ~isPlaying
       THEN /\ calls' = <<>>
            /\ frames' = frames - 1
       ELSE /\ \E deltaTime \in ClockDeltas :
                 calls' = (IF stats THEN <<Call("stats.begin")>> ELSE <<>>)
                          \o <<CallWith("clock.getDelta", deltaTime)>>
                          \o UpdateCalls(deltaTime)
                          \o (IF stats THEN <<Call("stats.end")>> ELSE <<>>)
                          \o <<Call("requestAnimationFrame")>>
            /\ frames' = frames

\* ---------------------------------------------------------------- resize
\* The calls of resize() when the container has the given size.
ResizeCalls(size) ==
    IF camera = 0 \/ renderer = 0
    THEN <<>>
    ELSE << Sized("camera.aspect", size), Call("camera.updateProjectionMatrix"),
            Sized("renderer.setSize", size) >>

\* Player.prototype.resize, as the window's resize event and the mutation
\* observer of the container call it (onResize): the host has given the
\* container the size `size`.
resize(size) ==
    /\ op' = "resize"
    /\ raised' = "none"
    /\ clientSize' = size
    /\ calls' = ResizeCalls(size)
    /\ UNCHANGED <<playerVars, pendingVars, lastChange, inits, clockStarts>>

\* ---------------------------------------------------------------- system
Next ==
    \/ \E sceneData \in SceneInputs : start(sceneData)
    \/ stop
    \/ \E s \in SessionIds, obj \in LoaderResults : LoaderThen(s, obj)
    \/ \E s \in SessionIds : LoaderReject(s)
    \/ \E s \in SessionIds : CreateReject(s)
    \/ \E s \in SessionIds : JoinThen(s)
    \/ animate
    \/ \E size \in ContainerSizes : resize(size)

Spec == Init /\ [][Next]_vars

\* The host runs every frame callback it was asked for.
FairSpec == Spec /\ WF_vars(animate)

TypeOK ==
    /\ isPlaying \in BOOLEAN
    /\ display \in {"none", ""}
    /\ scene \in 0..MaxSessions
    /\ camera \in 0..MaxSessions
    /\ renderer \in 0..MaxSessions
    /\ surfaces \subseteq SessionIds
    /\ clientSize \in ContainerSizes
    /\ clockRunning \in BOOLEAN
    /\ session \in 0..MaxSessions
    /\ loader \in [SessionIds -> {"none", "pending", "resolved", "rejected"}]
    /\ join \in [SessionIds -> {"none", "waiting", "done", "failed"}]
    /\ frames \in 0..MaxSessions
    /\ raised \in {"none", "TypeError"}
    /\ lastChange \in {"construct", "start", "stop"}
    /\ inits \in [SessionIds -> 0..2]
    /\ clockStarts \in [SessionIds -> 0..2]

\* ================================================================ properties
UpdateNames ==
    { "loader.update", "event.update", "control.update", "audio.update",
      "playerRenderer.update", "animation.update", "physics.update" }

IsUpdate(c) == c.name \in UpdateNames

\* the last step was a frame tick that ran an update pass
UpdatePass == op = "animate" /\ SelectSeq(calls, IsUpdate) # <<>>

\* C1: no frame tick performs a subsystem update before the join over the
\* six create() promises of the current session has resolved.
C1_StartupBarrier ==
    UpdatePass => (session > 0 /\ join[session] = "done")

\* C2: when a create() of the current session has failed, the player does not
\* stay Playing, the clock is not running and no frame tick updates the
\* subsystems.
C2_InitFailureAborts ==
    (session > 0 /\ join[session] = "failed")
        => (~isPlaying /\ ~clockRunning /\ ~UpdatePass)

\* C3: isPlaying is true exactly when the most recent state-changing call
\* was an accepted start (a valid string while Stopped).
C3_IsPlayingFollowsCalls ==
    isPlaying <=> (lastChange = "start")

\* a second session is playing: start, stop and start again were accepted
C3_Witness ==
    isPlaying /\ lastChange = "start" /\ session = 2

\* C4: start(valid scene data) while Playing makes no call, raises nothing
\* and changes neither the player nor what is pending for it.
C4_StartWhilePlayingNoOp ==
    [][\A sceneData \in SceneInputs :
          (isPlaying /\ sceneData.type = "string" /\ sceneData.json /\ start(sceneData))
              => (calls' = <<>> /\ raised' = "none"
                  /\ UNCHANGED <<playerVars, pendingVars>>)]_vars

\* start() has returned at the isPlaying test while a context was live
C4_Witness ==
    op = "start" /\ calls = <<>> /\ isPlaying /\ renderer # 0 /\ frames > 0

\* C5: stop() while Stopped makes no call, raises nothing and changes
\* neither the player nor what is pending for it.
C5_StopWhileStoppedNoOp ==
    [][(~isPlaying /\ stop)
          => (calls' = <<>> /\ raised' = "none"
              /\ UNCHANGED <<playerVars, pendingVars>>)]_vars

\* stop() has returned at the isPlaying test after a session was stopped
C5_Witness ==
    op = "stop" /\ calls = <<>> /\ ~isPlaying /\ lastChange = "stop"

\* C6: an accepted stop() returns without raising, with isPlaying false, the
\* container hidden, the context nulled and the clock stopped.
C6_StopCompletes ==
    (op = "stop" /\ calls # <<>>)
        => /\ raised = "none"
           /\ ~isPlaying
           /\ display = "none"
           /\ scene = 0 /\ camera = 0 /\ renderer = 0
           /\ ~clockRunning

\* C7: while Stopped there is no rendering context and no render surface in
\* the container.
C7_StoppedHasNoContext ==
    ~isPlaying => (scene = 0 /\ camera = 0 /\ renderer = 0 /\ surfaces = {})

\* C8: a frame tick while Playing calls update once on event, control,
\* playerRenderer, animation, physics, in that order, with the delta the
\* clock returned, and on nothing else.
C8_UpdateOrder ==
    (op = "animate" /\ isPlaying)
        => \E d \in 0..MaxDelta :
              /\ SelectSeq(calls, IsUpdate)
                    = << CallWith("event.update", d), CallWith("control.update", d),
                         CallWith("playerRenderer.update", d),
                         CallWith("animation.update", d),
                         CallWith("physics.update", d) >>
              /\ \A i \in Indices(calls, "clock.getDelta") : calls[i].arg = d

\* an update pass with a positive delta from a running clock
C8_Witness ==
    /\ UpdatePass
    /\ clockRunning
    /\ \E i \in DOMAIN calls : calls[i].name = "physics.update" /\ calls[i].arg > 0

TeardownNames ==
    << "event.stop", "loader.dispose", "event.dispose", "control.dispose",
       "audio.dispose", "playerRenderer.dispose", "animation.dispose",
       "physics.dispose" >>

\* C9: an accepted stop() calls event.stop() first, then dispose() once on
\* loader, event, control, audio, playerRenderer, animation, physics in that
\* order; the surface is detached and the context nulled only after them.
C9_TeardownOrder ==
    (op = "stop" /\ calls # <<>>)
        => /\ Len(calls) >= Len(TeardownNames)
           /\ \A i \in DOMAIN TeardownNames : calls[i].name = TeardownNames[i]
           /\ \A i \in DOMAIN calls :
                 i > Len(TeardownNames)
                    => calls[i].name \notin {TeardownNames[j] : j \in DOMAIN TeardownNames}
           /\ (renderer = 0 /\ raised = "none")
                 => (Count(calls, "removeChild") = 1 /\ Count(calls, "nullContext") = 1)

\* a stop() that detached the surface and nulled the context
C9_Witness ==
    /\ op = "stop"
    /\ Count(calls, "removeChild") = 1
    /\ Count(calls, "nullContext") = 1
    /\ renderer = 0

BootstrapNames ==
    { "initPlayer", "new PerspectiveCamera", "camera.updateProjectionMatrix",
      "new WebGLRenderer", "renderer.setSize", "appendChild",
      "new AudioListener", "camera.add", "new Scene" }

CreateNames ==
    { "loader.create", "event.create", "control.create", "audio.create",
      "playerRenderer.create", "animation.create", "physics.create" }

\* C10: 'init' is broadcast once per session whose loader resolved, after
\* the context is bootstrapped and before the first create() of the session.
C10_InitBroadcast ==
    /\ \A s \in SessionIds : inits[s] = (IF loader[s] = "resolved" THEN 1 ELSE 0)
    /\ op = "loaderThen"
          => /\ Count(calls, "dispatch.init") = 1
             /\ \A i \in Indices(calls, "dispatch.init") :
                   /\ calls[i].arg = 1
                   /\ \A j \in DOMAIN calls :
                         /\ calls[j].name \in BootstrapNames => j < i
                         /\ calls[j].name \in CreateNames => i < j
             /\ Count(calls, "event.create") = 1

\* the continuation of a session has broadcast 'init' over a synthesized
\* context
C10_Witness ==
    /\ op = "loaderThen"
    /\ Count(calls, "dispatch.init") = 1
    /\ Count(calls, "new WebGLRenderer") = 1
    /\ \E s \in SessionIds : inits[s] = 1

\* C11: start() with a non-string or with a string that is not JSON shows
\* one message and changes neither the player nor what is pending for it:
\* no loader.create, no frame callback.
C11_InvalidInputNoChange ==
    [][\A sceneData \in SceneInputs :
          ((sceneData.type # "string" \/ ~sceneData.json) /\ start(sceneData))
              => (/\ Count(calls', "UI.msg") = 1
                  /\ Count(calls', "loader.create") = 0
                  /\ raised' = "none"
                  /\ UNCHANGED <<playerVars, pendingVars>>)]_vars

\* start() has shown its message and a player stopped earlier is still
\* Stopped
C11_Witness ==
    op = "start" /\ Count(calls, "UI.msg") = 1 /\ ~isPlaying /\ lastChange = "stop"

\* C12: after start, stop, start the player is Playing with one rendering
\* context, one attached render surface and one frame loop, and the stop
\* and the restart raised nothing.
C12_IdempotentRestart ==
    (isPlaying /\ session >= 2)
        => /\ raised = "none"
           /\ Cardinality(surfaces) <= 1
           /\ (renderer # 0 => surfaces = {renderer})
           /\ frames <= 1

\* C15: at most one frame callback is pending.
C15_SingleFrameLoop ==
    frames <= 1

\* C16: the continuations of a session (initPlayer, 'init', the create()
\* calls; event.init, clock.start, event.start) run only while that session
\* is the current one and the player is Playing.
C16_NoLifecycleAfterStop ==
    [][\A s \in SessionIds :
          ((\E obj \in LoaderResults : LoaderThen(s, obj)) \/ JoinThen(s))
              => (isPlaying /\ session = s)]_vars

\* C18: the clock runs only while the player is Playing.
C18_ClockFollowsSession ==
    clockRunning => isPlaying

\* C20: a frame tick that runs an update pass reads clock.getDelta() once,
\* from a running clock.
C20_DeltaFromRunningClock ==
    UpdatePass => (Count(calls, "clock.getDelta") = 1 /\ clockRunning)

InitHookNames ==
    { "loader.init", "event.init", "control.init", "audio.init",
      "playerRenderer.init", "animation.init", "physics.init" }

StartHookNames ==
    { "loader.start", "event.start", "control.start", "audio.start",
      "playerRenderer.start", "animation.start", "physics.start" }

C13_ResizeWhileStoppedNoOp ==
    [][(~isPlaying /\ \E size \in ContainerSizes : resize(size))
          => (/\ calls' = <<>>
              /\ raised' = "none"
              /\ UNCHANGED playerVars)]_vars

\* C14: after the loader continuation camera, renderer and scene are set; a
\* missing camera is made with the container's width / height, a missing
\* renderer is made; the renderer is sized to the container and attached,
\* and an audio listener is added to the camera.
C14_ContextBootstrap ==
    op = "loaderThen"
        => /\ camera # 0 /\ renderer # 0 /\ scene # 0
           /\ Count(calls, "initPlayer") = 1
           /\ \A k \in Indices(calls, "initPlayer") :
                 /\ Count(calls, "new PerspectiveCamera")
                       = (IF calls[k].obj.camera THEN 0 ELSE 1)
                 /\ Count(calls, "new WebGLRenderer")
                       = (IF calls[k].obj.renderer THEN 0 ELSE 1)
           /\ \A i \in Indices(calls, "new PerspectiveCamera") :
                 calls[i].size = clientSize
           /\ Count(calls, "renderer.setSize") = 1
           /\ \A i \in Indices(calls, "renderer.setSize") :
                 /\ calls[i].size = clientSize
                 /\ \A j \in Indices(calls, "new WebGLRenderer") : j < i
           /\ Count(calls, "appendChild") = 1
           /\ renderer \in surfaces
           /\ Count(calls, "camera.add") = 1

\* a loaded renderer was sized to a container that is not square, and the
\* camera was synthesized
C14_Witness ==
    /\ op = "loaderThen"
    /\ Count(calls, "new WebGLRenderer") = 0
    /\ Count(calls, "new PerspectiveCamera") = 1
    /\ \E i \in Indices(calls, "renderer.setSize") :
          calls[i].size = clientSize /\ clientSize.width # clientSize.height
    /\ renderer \in surfaces

\* C17: a frame callback that fires while Stopped reads no delta, updates
\* nothing and schedules nothing; no update pass runs while Stopped; and when
\* the player stays Stopped the pending callbacks run out for good.
C17_LoopSelfTerminates ==
    /\ [][(~isPlaying /\ animate) => (calls' = <<>> /\ frames' = frames - 1)]_vars
    /\ [](UpdatePass => isPlaying)
    /\ (<>[](~isPlaying) => <>[](frames = 0))

\* the last pending callback has fired after a stop() and scheduled nothing
C17_Witness ==
    op = "animate" /\ calls = <<>> /\ ~isPlaying /\ frames = 0 /\ lastChange = "stop"

====
